---- MODULE Spec2Model ----
(***************************************************************************)
(* CacheForge: the search loop of run_loop_docker.py (main and its         *)
(* helpers) over the experiments table that DB_Connection.py seeds.        *)
(*                                                                         *)
(* Hit rates and scores are exact rationals <<n, d>> in lowest terms with  *)
(* d > 0 (Python computes them in binary floating point; the model keeps   *)
(* the exact quotient).  Candidate names are sequences of one-character    *)
(* strings; descriptions and sources are opaque strings.  Replies of the   *)
(* oracle and reports of the simulator are sequences of tokens, on which   *)
(* the regular expressions of the helpers are worked out.                  *)
(*                                                                         *)
(* Spec follows main(); LongRunSpec follows one run of main() past         *)
(* ITERATIONS evaluations; ParseSpec, SanitizeSpec, MetricSpec and         *)
(* RankSpec call parse_policy_content, sanitize, parse_hit_rate and the    *)
(* ranking on their own over bounded sets of arguments.                    *)
(***************************************************************************)
EXTENDS Integers, Sequences, FiniteSets, TLC

\* ------------------------------------------------------------------ bounds
\* Successful evaluations explored per run (the loop itself is unbounded).
MaxIter == 3

\* Successful evaluations explored in a run that is followed past ITERATIONS.
LongRunIter == 102

\* ------------------------------------------------------------- arithmetic
Abs(x) == IF x < 0 THEN -x ELSE x

RECURSIVE Gcd(_, _)
Gcd(a, b) == IF b = 0 THEN a ELSE Gcd(b, a % b)

\* n / d as an exact rational in lowest terms (d > 0).
Rat(n, d) == LET g == Gcd(Abs(n), d) IN <<n \div g, d \div g>>

Zero == <<0, 1>>

RatAdd(x, y) == Rat(x[1] * y[2] + y[1] * x[2], x[2] * y[2])

\* x / k for a positive integer k.
RatDivInt(x, k) == Rat(x[1], x[2] * k)

\* x > y
RatGT(x, y) == x[1] * y[2] > y[1] * x[2]

RECURSIVE RatSum(_)
RatSum(s) == IF s = <<>> THEN Zero ELSE RatAdd(s[1], RatSum(Tail(s)))

\* sum(hit_rates) / len(hit_rates)
Mean(s) == RatDivInt(RatSum(s), Len(s))

\* f"{x:.2%}": x * 100 printed with two decimals, i.e. x rounded to a whole
\* number of hundredths of a percent (ties to even).
Pct2(x) ==
    LET q == (x[1] * 10000) \div x[2]
        r == (x[1] * 10000) % x[2]
    IN  IF 2 * r > x[2] THEN q + 1
        ELSE IF 2 * r < x[2] THEN q
        ELSE IF q % 2 = 0 THEN q ELSE q + 1

\* ------------------------------------------------------------ configuration
\* ITERATIONS = 100 (no statement of main() reads it)
ITERATIONS == 100

\* run_loop_docker.py: workloads (names in the configured order).
workloads == <<"astar", "lbm", "mcf", "milc", "omnetpp">>

ALL == "all"

IsPrefix(s, t) == Len(s) <= Len(t) /\ SubSeq(t, 1, Len(s)) = s

\* ------------------------------------------------------------------- text
UpperCase == <<"A", "B", "C", "D", "E", "F", "G", "H", "I", "J", "K", "L", "M",
               "N", "O", "P", "Q", "R", "S", "T", "U", "V", "W", "X", "Y", "Z">>
LowerCase == <<"a", "b", "c", "d", "e", "f", "g", "h", "i", "j", "k", "l", "m",
               "n", "o", "p", "q", "r", "s", "t", "u", "v", "w", "x", "y", "z">>
Digits == <<"0", "1", "2", "3", "4", "5", "6", "7", "8", "9">>

Range(s) == {s[j] : j \in 1..Len(s)}

\* Characters outside ASCII are written by their code point: U+00C9 and
\* U+00E9 are the capital and the small e with acute accent, U+0130 is the
\* capital I with a dot above and U+0307 the combining dot above.
UnicodeAlnum == {"U+00C9", "U+00E9", "U+0130"}

\* str.isalnum on one character
isalnum(c) ==
    c \in Range(UpperCase) \cup Range(LowerCase) \cup Range(Digits)
            \cup UnicodeAlnum

\* str.lower on one character: the characters it becomes
lower(c) ==
    CASE c \in Range(UpperCase) ->
            <<LowerCase[CHOOSE j \in 1..Len(UpperCase) : UpperCase[j] = c]>>
      [] c = "U+00C9" -> <<"U+00E9">>
      [] c = "U+0130" -> <<"i", "U+0307">>
      [] OTHER -> <<c>>

\* str.strip("_")
RECURSIVE lstrip(_)
lstrip(s) == IF s # <<>> /\ s[1] = "_" THEN lstrip(Tail(s)) ELSE s

RECURSIVE rstrip(_)
rstrip(s) ==
    IF s # <<>> /\ s[Len(s)] = "_" THEN rstrip(SubSeq(s, 1, Len(s) - 1)) ELSE s

strip(s) == rstrip(lstrip(s))

\* str.lower on a string
RECURSIVE lowered(_)
lowered(s) == IF s = <<>> THEN <<>> ELSE lower(Head(s)) \o lowered(Tail(s))

\* "".join(c if c.isalnum() else "_" for c in name).strip("_").lower()
sanitize(nm) ==
    LET joined == [j \in 1..Len(nm) |-> IF isalnum(nm[j]) THEN nm[j] ELSE "_"]
    IN  lowered(strip(joined))

\* str(n) for n >= 0
RECURSIVE Decimal(_)
Decimal(n) ==
    IF n < 10 THEN <<Digits[n + 1]>>
    ELSE Decimal(n \div 10) \o <<Digits[(n % 10) + 1]>>

\* f"{n:03}"
RECURSIVE Pad3(_)
Pad3(s) == IF Len(s) < 3 THEN Pad3(<<"0">> \o s) ELSE s

\* A slip that would name the source file by the sanitized name alone.
SourcePathNoIndex(idx, base) ==
    [dir |-> "ChampSim_CRC2/new_policies", file |-> base \o <<".", "c", "c">>]

\* EXAMPLE_DIR / f"{i:03}_{base}.cc"
SourcePath(idx, base) ==
    [dir |-> "ChampSim_CRC2/new_policies",
     file |-> Pad3(Decimal(idx)) \o <<"_">> \o base \o <<".", "c", "c">>]

\* ----------------------------------------------------------------- ledger
\* One row of the experiments table (record's INSERT).
Row(workload, policy, policy_description, workload_description, cc, rate, score) ==
    [workload |-> workload,
     policy |-> policy,
     policy_description |-> policy_description,
     workload_description |-> workload_description,
     cpp_file_path |-> cc,
     cache_hit_rate |-> rate,
     score |-> score]

\* A slip that would overwrite the row a (workload, candidate) pair already
\* has instead of inserting a new one.
recordUpsert(db, workload, nm, ds, cc, rate, workload_desc) ==
    LET same == {j \in 1..Len(db) : db[j].workload = workload /\ db[j].policy = nm}
    IN  IF same = {}
        THEN Append(db, Row(workload, nm, ds, workload_desc, cc, rate, rate))
        ELSE [db EXCEPT ![CHOOSE j \in same : TRUE] =
                Row(workload, nm, ds, workload_desc, cc, rate, rate)]

\* A slip that would skip the insert when the (workload, candidate) pair
\* already has a row.
recordIgnoreRepeat(db, workload, nm, ds, cc, rate, workload_desc) ==
    IF \E j \in 1..Len(db) : db[j].workload = workload /\ db[j].policy = nm
    THEN db
    ELSE Append(db, Row(workload, nm, ds, workload_desc, cc, rate, rate))

\* record(workload, name, desc, cc, rate, workload_desc): one INSERT whose
\* cache_hit_rate and score columns both receive `rate`.
record(db, workload, nm, ds, cc, rate, workload_desc) ==
    Append(db, Row(workload, nm, ds, workload_desc, cc, rate, rate))

\* ---------------------------------------------------------------- seeding
\* DB_Connection.py: the policies table (two of the baseline entries).
policies ==
    <<[name |-> <<"L", "R", "U">>,
       description |-> "Least Recently Used",
       file_path |-> [dir |-> "ChampSim_CRC2/champ_repl_pol",
                      file |-> <<"l", "r", "u", ".", "c", "c">>]],
      [name |-> <<"S", "h", "i", "p", "+", "+">>,
       description |-> "Signature-based Hit Predictor",
       file_path |-> [dir |-> "ChampSim_CRC2/champ_repl_pol",
                      file |-> <<"s", "h", "i", "p", "+", "+", ".", "c", "c">>]]>>

\* perf_data: workload -> hit rate of each policy, in the order of `policies`.
PerfHalf ==
    [w \in Range(workloads) |->
        CASE w = "astar" -> <<Rat(1, 2), Rat(2, 10)>>
          [] w = "lbm" -> <<Rat(1, 2), Rat(3, 10)>>
          [] w = "mcf" -> <<Rat(1, 2), Rat(4, 10)>>
          [] w = "milc" -> <<Rat(1, 2), Rat(5, 10)>>
          [] OTHER -> <<Rat(1, 2), Rat(6, 10)>>]

PerfZero == [w \in Range(workloads) |-> <<Zero, Zero>>]

\* policy_hit_rates[policy]: its hit rates, one per workload in table order.
policy_hit_rates(perf_data, p) ==
    [j \in 1..Len(workloads) |-> perf_data[workloads[j]][p]]

\* policy_scores[policy] = sum(hit_rates) / len(hit_rates)
policy_scores(perf_data, p) == Mean(policy_hit_rates(perf_data, p))

\* The per-workload INSERTs: workload-major, every row carrying the policy's
\* precomputed average in its score column.
SeedWorkloadRows(perf_data) ==
    [j \in 1..(Len(workloads) * Len(policies)) |->
        LET w == workloads[((j - 1) \div Len(policies)) + 1]
            p == ((j - 1) % Len(policies)) + 1
        IN  Row(w, policies[p].name, policies[p].description, "described",
                policies[p].file_path, perf_data[w][p],
                policy_scores(perf_data, p))]

\* The "all" INSERTs: one per policy, hit rate and score both the average.
SeedAggregateRows(perf_data) ==
    [p \in 1..Len(policies) |->
        Row(ALL, policies[p].name, policies[p].description, "",
            policies[p].file_path, policy_scores(perf_data, p),
            policy_scores(perf_data, p))]

SeedLedger(perf_data) == SeedWorkloadRows(perf_data) \o SeedAggregateRows(perf_data)

\* ------------------------------------------------------ retrieval ranking
\* Indices of the rows of a scope.
Scope(db, workload) == {j \in 1..Len(db) : db[j].workload = workload}

\* A slip that would rank the later of two rows with equal scores first.
RanksBeforeLatest(db, j, h) ==
    \/ RatGT(db[j].score, db[h].score)
    \/ db[j].score = db[h].score /\ j > h

\* Row j ranks before row h: higher score, or equal score and recorded earlier.
RanksBefore(db, j, h) ==
    \/ RatGT(db[j].score, db[h].score)
    \/ db[j].score = db[h].score /\ j < h

\* One row per candidate name: the one that ranks first among its rows.
Representatives(db, workload) ==
    {j \in Scope(db, workload) :
        \A h \in Scope(db, workload) :
            (h # j /\ db[h].policy = db[j].policy) => RanksBefore(db, j, h)}

RECURSIVE Ranked(_, _)
Ranked(db, idx) ==
    IF idx = {} THEN <<>>
    ELSE LET top == CHOOSE j \in idx : \A h \in idx \ {j} : RanksBefore(db, j, h)
         IN  <<top>> \o Ranked(db, idx \ {top})

\* rag.get_top_policies_by_score(workload, top_n)
get_top_policies_by_score(db, workload, top_n) ==
    LET order == Ranked(db, Representatives(db, workload))
        m == IF Len(order) < top_n THEN Len(order) ELSE top_n
    IN  [j \in 1..m |->
            [policy |-> db[order[j]].policy,
             score |-> db[order[j]].score,
             policy_description |-> db[order[j]].policy_description]]

\* ------------------------------------------------------- the oracle's reply
\* A reply is a sequence of tokens: the two section markers (each stands for
\* any text that `##\s*Policy\s*Name` or `##\s*Policy\s*Description` matches,
\* in any case), the two fences, a newline, a blank, and anything else as a
\* run of ordinary text.  The backquote is written as an apostrophe.
NameMarker == "## Policy Name"
DescMarker == "## Policy Description"
CodeOpen == "'''cpp"
Fence == "'''"
NL == "\n"
SP == " "
Whitespace == {NL, SP}

\* The characters of one token.
Chars(tok) ==
    CASE tok = NameMarker ->
            <<"#", "#", " ", "P", "o", "l", "i", "c", "y", " ", "N", "a", "m", "e">>
      [] tok = DescMarker ->
            <<"#", "#", " ", "P", "o", "l", "i", "c", "y", " ",
              "D", "e", "s", "c", "r", "i", "p", "t", "i", "o", "n">>
      [] tok = CodeOpen -> <<"'", "'", "'", "c", "p", "p">>
      [] tok = Fence -> <<"'", "'", "'">>
      [] OTHER -> <<tok>>

\* A matched group as a sequence of characters, and as one string.
RECURSIVE Flatten(_)
Flatten(toks) ==
    IF toks = <<>> THEN <<>> ELSE Chars(Head(toks)) \o Flatten(Tail(toks))

RECURSIVE Join(_)
Join(toks) == IF toks = <<>> THEN "" ELSE Head(toks) \o Join(Tail(toks))

\* str.strip() on a matched group
RECURSIVE TrimLeft(_)
TrimLeft(toks) ==
    IF toks # <<>> /\ Head(toks) \in Whitespace THEN TrimLeft(Tail(toks)) ELSE toks

RECURSIVE TrimRight(_)
TrimRight(toks) ==
    IF toks # <<>> /\ toks[Len(toks)] \in Whitespace
    THEN TrimRight(SubSeq(toks, 1, Len(toks) - 1))
    ELSE toks

Trim(toks) == TrimRight(TrimLeft(toks))

Least(S) == CHOOSE x \in S : \A y \in S : x <= y
Greatest(S) == CHOOSE x \in S : \A y \in S : y <= x

\* re.search(marker + r"\s*\n(.*?)\n", text, DOTALL | IGNORECASE): the group
\* of the leftmost match as <<group>>, <<>> when nothing matches.  At a marker
\* the greedy \s* gives back as little as it must: the group starts behind
\* the last newline of the marker's whitespace run that still has a newline
\* somewhere after it, and the lazy group ends before the next newline.
SearchLine(text, marker) ==
    LET RunEnd(p) ==
            Greatest({q \in p..Len(text) :
                         \A r \in (p + 1)..q : text[r] \in Whitespace})
        Closes(e) == {f \in (e + 1)..Len(text) : text[f] = NL}
        Opens(p) ==
            {e \in (p + 1)..RunEnd(p) : text[e] = NL /\ Closes(e) # {}}
        starts == {p \in 1..Len(text) : text[p] = marker /\ Opens(p) # {}}
    IN  IF starts = {} THEN <<>>
        ELSE LET e == Greatest(Opens(Least(starts)))
             IN  <<SubSeq(text, e + 1, Least(Closes(e)) - 1)>>

\* re.search of the fenced block (three backquotes and cpp, \s*, (.*?), \s*,
\* three backquotes; DOTALL | IGNORECASE): the group runs from the first
\* opening fence to the next fence (another opening fence begins with one);
\* the whitespace at its ends falls to strip() whichever \s* took it.
SearchFenced(text) ==
    LET Closes(p) == {f \in (p + 1)..Len(text) : text[f] \in {Fence, CodeOpen}}
        starts == {p \in 1..Len(text) : text[p] = CodeOpen /\ Closes(p) # {}}
    IN  IF starts = {} THEN <<>>
        ELSE LET p == Least(starts)
             IN  <<SubSeq(text, p + 1, Least(Closes(p)) - 1)>>

\* Python's None, for a name and for a string.
NoName == <<"None">>
NoText == "None"

\* parse_policy_content: (name, desc, code), each m.group(1).strip() or None.
parse_policy_content(text) ==
    LET nm == SearchLine(text, NameMarker)
        ds == SearchLine(text, DescMarker)
        src == SearchFenced(text)
    IN  [name |-> IF nm = <<>> THEN NoName ELSE Flatten(Trim(nm[1])),
         desc |-> IF ds = <<>> THEN NoText ELSE Join(Trim(ds[1])),
         code |-> IF src = <<>> THEN NoText ELSE Join(Trim(src[1]))]

\* A reply in the format the prompt asks for; nm, ds and src are token
\* sequences (empty for a section left blank).
FormattedReply(nm, ds, src) ==
    <<NameMarker, NL>> \o nm \o <<NL, NL, DescMarker, NL>> \o ds
        \o <<NL, NL, "## C++ Implementation", NL, CodeOpen, NL>> \o src
        \o <<NL, Fence, NL>>

\* The same three sections with the fenced source first.
SourceFirstReply(nm, ds, src) ==
    <<"## C++ Implementation", NL, CodeOpen, NL>> \o src \o <<NL, Fence, NL, NL>>
        \o <<NameMarker, NL>> \o nm \o <<NL, NL, DescMarker, NL>> \o ds \o <<NL>>

\* A reply that stops before its description.
NoDescriptionReply(nm, src) ==
    <<NameMarker, NL>> \o nm
        \o <<NL, NL, "## C++ Implementation", NL, CodeOpen, NL>> \o src
        \o <<NL, Fence, NL>>

\* Replies the oracle may give.
Replies ==
    {FormattedReply(<<"A">>, <<"first">>, <<"src60">>),
     FormattedReply(<<"B">>, <<"second">>, <<"src66">>),
     FormattedReply(<<"A">>, <<"third">>, <<"src65">>),
     FormattedReply(<<"C", " ", "1">>, <<"fourth">>, <<"srcmix">>),
     FormattedReply(<<"A">>, <<"broken">>, <<"srcbad">>),
     FormattedReply(<<"B">>, <<"fifth">>, <<"srcnostats">>),
     FormattedReply(<<"B">>, <<"sixth">>, <<"srccrash">>),
     NoDescriptionReply(<<"D">>, <<"src60">>),
     FormattedReply(<<"D">>, <<"seventh">>, <<>>),
     FormattedReply(<<>>, <<"eighth">>, <<"srccrash">>),
     SourceFirstReply(<<"E">>, <<"ninth">>, <<"srcnostats">>)}

\* ------------------------------------------------- external collaborators
\* How one run of the simulator ends: with the counters of the last-level
\* cache, without reporting them, or with a non-zero exit.
Stats(a, h) == [kind |-> "stats", access |-> a, hit |-> h]
NoStats == [kind |-> "nostats", access |-> 0, hit |-> 0]
Crash == [kind |-> "crash", access |-> 0, hit |-> 0]

\* g++ on the written source: does run_in_docker return (TRUE) or raise
\* CalledProcessError (FALSE)?
Builds(src) == src # "srcbad"

\* The simulator's report for a compiled source on one workload's trace.
Report(src, w) ==
    CASE src = "src60" -> Stats(100, 60)
      [] src = "src66" -> Stats(100, 66)
      [] src = "src65" ->
            (CASE w = "astar" -> Stats(20, 13)
               [] w = "lbm" -> Stats(100, 65)
               [] w = "mcf" -> Stats(10, 10)
               [] w = "milc" -> Stats(10, 3)
               [] OTHER -> Stats(20, 13))
      [] src = "srcmix" -> IF w = "astar" THEN Stats(0, 0) ELSE Stats(4, 2)
      [] src = "srcnostats" ->
            IF w \in {"astar", "lbm"} THEN Stats(100, 50) ELSE NoStats
      [] src = "srccrash" -> IF w = "astar" THEN Stats(100, 70) ELSE Crash
      [] OTHER -> NoStats

\* The text of a report, as a sequence of tokens: the literals of the
\* pattern, a run of whitespace, a run of digits (with the number it
\* spells) and any other run of text.
Lit(word) == [t |-> word, n |-> 0]
Num(v) == [t |-> "digits", n |-> v]
LLC_TOTAL == Lit("LLC TOTAL")
ACCESS == Lit("ACCESS:")
HIT == Lit("HIT:")
WS == Lit(" ")

\* What the simulator prints (res.stdout) for each outcome: a run that
\* reports the last-level cache prints its line among those of the other
\* levels, a run that does not prints only the others.
Stdout(out) ==
    IF out.kind = "stats"
    THEN <<Lit("L2C TOTAL"), WS, ACCESS, WS, Num(7), WS, HIT, WS, Num(3), WS,
           LLC_TOTAL, WS, ACCESS, WS, Num(out.access), WS, HIT, WS,
           Num(out.hit), WS, Lit("MISS:"), WS, Num(out.access - out.hit), WS>>
    ELSE <<Lit("L2C TOTAL"), WS, ACCESS, WS, Num(7), WS, HIT, WS, Num(3), WS>>

\* \s+ from position p: the position behind the run, 0 when there is none.
AfterSpace(txt, p) ==
    IF p > Len(txt) \/ txt[p] # WS THEN 0
    ELSE Least({q \in (p + 1)..(Len(txt) + 1) :
                   q = Len(txt) + 1 \/ txt[q] # WS})

\* One literal or number of the pattern, then \s+ where more follows.
TokenThenSpace(txt, p, kind) ==
    IF p = 0 \/ p > Len(txt) \/ txt[p].t # kind THEN 0 ELSE AfterSpace(txt, p + 1)

\* A slip that would leave the LLC TOTAL prefix out of the pattern.
SearchLLCAnyLevel(txt) ==
    LET MatchAt(p) ==
            LET a == TokenThenSpace(txt, p, ACCESS.t)
                h == TokenThenSpace(txt, TokenThenSpace(txt, a, "digits"), HIT.t)
            IN  IF h # 0 /\ h <= Len(txt) /\ txt[h].t = "digits"
                THEN <<[access |-> txt[a].n, hit |-> txt[h].n]>>
                ELSE <<>>
        starts == {p \in 1..Len(txt) : txt[p] = ACCESS /\ MatchAt(p) # <<>>}
    IN  IF starts = {} THEN <<>> ELSE MatchAt(Least(starts))

\* re.search(r"LLC TOTAL\s+ACCESS:\s+(\d+)\s+HIT:\s+(\d+)", output): the two
\* groups of the leftmost match as <<(access, hit)>>, <<>> without a match.
SearchLLC(txt) ==
    LET MatchAt(p) ==
            LET a == TokenThenSpace(txt, TokenThenSpace(txt, p, LLC_TOTAL.t), ACCESS.t)
                h == TokenThenSpace(txt, TokenThenSpace(txt, a, "digits"), HIT.t)
            IN  IF h # 0 /\ h <= Len(txt) /\ txt[h].t = "digits"
                THEN <<[access |-> txt[a].n, hit |-> txt[h].n]>>
                ELSE <<>>
        starts == {p \in 1..Len(txt) : txt[p] = LLC_TOTAL /\ MatchAt(p) # <<>>}
    IN  IF starts = {} THEN <<>> ELSE MatchAt(Least(starts))

\* A slip that would take a report without the LLC TOTAL line for one with
\* zero accesses.
parse_hit_rateZeroDefault(output) ==
    LET m == SearchLLC(output)
    IN  [raised |-> "none",
         rate |-> IF m # <<>> /\ m[1].access > 0
                  THEN Rat(m[1].hit, m[1].access) ELSE Zero]

\* parse_hit_rate: the rate it returns, or the error it raises.
parse_hit_rate(output) ==
    LET m == SearchLLC(output)
    IN  IF m # <<>>
        THEN [raised |-> "none",
              rate |-> IF m[1].access > 0 THEN Rat(m[1].hit, m[1].access)
                       ELSE Zero]
        ELSE [raised |-> "RuntimeError: LLC TOTAL not found", rate |-> Zero]

\* parse_llc_stats of DB_Connection.py: (access, hits), or the error.
parse_llc_stats(txt) ==
    LET m == SearchLLC(txt)
    IN  IF m # <<>>
        THEN [raised |-> "none", access |-> m[1].access, hits |-> m[1].hit]
        ELSE [raised |-> "RuntimeError: LLC TOTAL line not found in ChampSim output",
              access |-> 0, hits |-> 0]

\* The rows one complete evaluation leaves behind (per workload, then "all").
EvaluationRows(idx, nm, ds, src) ==
    LET cc == SourcePath(idx, sanitize(nm))
        rates == [j \in 1..Len(workloads) |->
                    parse_hit_rate(Stdout(Report(src, workloads[j]))).rate]
    IN  [j \in 1..(Len(workloads) + 1) |->
            IF j <= Len(workloads)
            THEN Row(workloads[j], nm, ds, "", cc, rates[j], rates[j])
            ELSE Row(ALL, nm, ds, "", cc, Mean(rates), Mean(rates))]

\* Ledgers a run can start from: an empty table; the seeded table; a seeded
\* table whose baselines all score 0; a table seeded up to the per-workload
\* commit only; the seeded table followed by the rows of an earlier run.
SeedLedgers ==
    {<<>>,
     SeedLedger(PerfHalf),
     SeedLedger(PerfZero),
     SeedWorkloadRows(PerfHalf),
     SeedLedger(PerfHalf) \o EvaluationRows(0, <<"A">>, "first", "src60")
        \o EvaluationRows(1, <<"C", " ", "1">>, "fourth", "srcmix")}

\* ------------------------------------------------------------------ state
VARIABLES
    pc,               \* where main() stands
    raised,           \* the exception that ended main(), "none" otherwise
    ledger,           \* the experiments table, in rowid order
    seed_rows,        \* number of rows the table held when main() started
    files,            \* EXAMPLE_DIR: source path -> text written there
    top_policies,
    best_hit,
    current_hit,
    prev_name, prev_desc, prev_code,
    i,
    prompt,           \* the last prompt composed
    text,             \* the last reply of the oracle
    name, desc, code, \* the candidate parsed from the last reply
    cc,               \* its source path
    current_hit_tmp,
    k,                \* position of `for trace_info in workloads`
    fn_in,            \* argument of a function called on its own
    fn_out            \* what that call returned

vars == <<pc, raised, ledger, seed_rows, files, top_policies, best_hit,
          current_hit, prev_name, prev_desc, prev_code, i, prompt,
          text, name, desc, code, cc, current_hit_tmp, k, fn_in, fn_out>>

\* Python's None, for a path, a feedback and a prompt.
NoPath == [dir |-> "None", file |-> <<>>]
NoFeedback == [kind |-> "none", from |-> 0, to |-> 0]
\* No function is being called on its own.
NoCall == [fn |-> "none"]
NoPrompt ==
    [template |-> "none", policy_summary |-> <<>>, prev_name |-> NoName,
     prev_desc |-> NoText, prev_code |-> NoText, feedback |-> NoFeedback]

\* rag.get_top_policies_by_score(WORKLOAD, top_n=5)
TopN == 5

Init ==
    /\ pc = "start"
    /\ raised = "none"
    /\ ledger \in SeedLedgers
    /\ seed_rows = Len(ledger)
    /\ files = <<>>
    /\ top_policies = <<>>
    /\ best_hit = Zero
    /\ current_hit = Zero
    /\ prev_name = NoName
    /\ prev_desc = NoText
    /\ prev_code = NoText
    /\ i = 0
    /\ prompt = NoPrompt
    /\ text = <<>>
    /\ name = NoName
    /\ desc = NoText
    /\ code = NoText
    /\ cc = NoPath
    /\ current_hit_tmp = Zero
    /\ k = 0
    /\ fn_in = NoCall
    /\ fn_out = NoCall

\* main(): the `docker --version` probe; main returns when it fails.
CheckDocker ==
    /\ pc = "start"
    /\ UNCHANGED <<text, fn_in, fn_out>>
    /\ \E available \in BOOLEAN :
        pc' = IF available THEN "init" ELSE "returned"
    /\ UNCHANGED <<raised, ledger, seed_rows, files, top_policies, best_hit,
                   current_hit, prev_name, prev_desc, prev_code, i, prompt,
                   name, desc, code, cc, current_hit_tmp, k>>

\* policy_summary: one entry per top policy, the score printed as {:.2%}.
policy_summary(tp) ==
    [j \in 1..Len(tp) |->
        [policy |-> tp[j].policy, hit |-> Pct2(tp[j].score),
         description |-> tp[j].policy_description]]

\* A slip that would start from a best of 0 when there is nothing to rank.
SetupDefaultZero ==
    /\ pc = "init"
    /\ UNCHANGED <<text, fn_in, fn_out>>
    /\ LET tp == get_top_policies_by_score(ledger, ALL, TopN)
       IN  /\ top_policies' = tp
           /\ best_hit' = IF tp = <<>> THEN Zero ELSE tp[1].score
           /\ current_hit' = best_hit'
    /\ pc' = "compose"
    /\ prev_name' = NoName
    /\ prev_desc' = NoText
    /\ prev_code' = NoText
    /\ i' = 0
    /\ UNCHANGED <<raised, ledger, seed_rows, files, prompt, name, desc, code,
                   cc, current_hit_tmp, k>>

\* main(): seeding of the run state; top_policies[0] of an empty list raises.
Setup ==
    /\ pc = "init"
    /\ UNCHANGED <<text, fn_in, fn_out>>
    /\ LET tp == get_top_policies_by_score(ledger, ALL, TopN)
       IN  IF tp = <<>>
           THEN /\ pc' = "fatal"
                /\ raised' = "IndexError"
                /\ UNCHANGED <<top_policies, best_hit, current_hit,
                               prev_name, prev_desc, prev_code, i>>
           ELSE /\ pc' = "compose"
                /\ raised' = raised
                /\ top_policies' = tp
                /\ best_hit' = tp[1].score
                /\ prev_name' = NoName
                /\ prev_desc' = NoText
                /\ prev_code' = NoText
                /\ current_hit' = tp[1].score
                /\ i' = 0
    /\ UNCHANGED <<ledger, seed_rows, files, prompt, name, desc, code, cc,
                   current_hit_tmp, k>>

\* A slip that would print the best score in both places of the second text.
NotBetterOfBest(best, current) ==
    [kind |-> "not better", from |-> Pct2(best), to |-> Pct2(best)]

\* The feedback sentence: which of the two texts, and the two scores it
\* prints, each as {:.2%}.
Improved(best, current) ==
    [kind |-> "improved", from |-> Pct2(best), to |-> Pct2(current)]
NotBetter(best, current) ==
    [kind |-> "not better", from |-> Pct2(current), to |-> Pct2(best)]

\* A slip that would take the latest score as the best, better or not.
NextBestLatest(best, current) == current

\* `if current_hit > best_hit: best_hit = current_hit`
NextBest(best, current) == IF RatGT(current, best) THEN current ELSE best

\* A slip that would use the cold-start template for the first request only,
\* whatever the counter is.
ComposeFirstOnly(bound) ==
    /\ pc = "compose"
    /\ UNCHANGED <<text, fn_in, fn_out>>
    /\ i < bound
    /\ IF prompt = NoPrompt
       THEN /\ prompt' = [template |-> "cold start",
                          policy_summary |-> policy_summary(top_policies),
                          prev_name |-> NoName, prev_desc |-> NoText,
                          prev_code |-> NoText, feedback |-> NoFeedback]
            /\ best_hit' = best_hit
       ELSE LET improved == RatGT(current_hit, best_hit)
                feedback == IF improved
                            THEN Improved(best_hit, current_hit)
                            ELSE NotBetter(best_hit, current_hit)
            IN  /\ best_hit' = NextBest(best_hit, current_hit)
                /\ prompt' = [template |-> "feedback",
                              policy_summary |-> <<>>,
                              prev_name |-> prev_name, prev_desc |-> prev_desc,
                              prev_code |-> prev_code, feedback |-> feedback]
    /\ pc' = "generate"
    /\ UNCHANGED <<raised, ledger, seed_rows, files, top_policies, current_hit,
                   prev_name, prev_desc, prev_code, i, name, desc, code, cc,
                   current_hit_tmp, k>>

\* main(): top of the loop, the prompt for this pass; the passes explored end
\* at `bound` evaluations.
ComposeWithin(bound) ==
    /\ pc = "compose"
    /\ UNCHANGED <<text, fn_in, fn_out>>
    /\ i < bound
    /\ IF i = 0
       THEN /\ prompt' = [template |-> "cold start",
                          policy_summary |-> policy_summary(top_policies),
                          prev_name |-> NoName, prev_desc |-> NoText,
                          prev_code |-> NoText, feedback |-> NoFeedback]
            /\ best_hit' = best_hit
       ELSE LET improved == RatGT(current_hit, best_hit)
                feedback == IF improved
                            THEN Improved(best_hit, current_hit)
                            ELSE NotBetter(best_hit, current_hit)
            IN  /\ best_hit' = NextBest(best_hit, current_hit)
                /\ prompt' = [template |-> "feedback",
                              policy_summary |-> <<>>,
                              prev_name |-> prev_name, prev_desc |-> prev_desc,
                              prev_code |-> prev_code, feedback |-> feedback]
    /\ pc' = "generate"
    /\ UNCHANGED <<raised, ledger, seed_rows, files, top_policies, current_hit,
                   prev_name, prev_desc, prev_code, i, name, desc, code, cc,
                   current_hit_tmp, k>>

Compose == ComposeWithin(MaxIter)

\* `not (name and desc and code)`: None or an empty string.
ParseFailed(reply) ==
    \/ reply.name \in {NoName, <<>>}
    \/ reply.desc \in {NoText, ""}
    \/ reply.code \in {NoText, ""}

\* main(): the oracle call, parse_policy_content, sanitize and the write of
\* the source file.
GenerateFrom(replies) ==
    /\ pc = "generate"
    /\ UNCHANGED <<fn_in, fn_out>>
    /\ \/ /\ pc' = "fatal"
          /\ raised' = "APIError"
          /\ UNCHANGED <<text, name, desc, code, cc, files>>
       \/ \E resp \in replies :
            LET reply == parse_policy_content(resp)
            IN  /\ text' = resp
                /\ name' = reply.name
                /\ desc' = reply.desc
                /\ code' = reply.code
                /\ IF ParseFailed(reply)
                   THEN /\ pc' = "fatal"
                        /\ raised' = "RuntimeError: Parse failed"
                        /\ UNCHANGED <<cc, files>>
                   ELSE /\ cc' = SourcePath(i, sanitize(reply.name))
                        /\ files' = (cc' :> reply.code) @@ files
                        /\ pc' = "compile"
                        /\ raised' = raised
    /\ UNCHANGED <<ledger, seed_rows, top_policies, best_hit, current_hit,
                   prev_name, prev_desc, prev_code, i, prompt,
                   current_hit_tmp, k>>

Generate == GenerateFrom(Replies)

\* A slip that would leave out `current_hit_tmp=0`, so that the sum carries
\* over from the evaluation before.
StartWorkloadsNoReset ==
    /\ pc' = "run"
    /\ k' = 1
    /\ UNCHANGED <<raised, ledger, seed_rows, files, top_policies, best_hit,
                   current_hit, prev_name, prev_desc, prev_code, i, prompt,
                   name, desc, code, cc, current_hit_tmp>>

\* main(): the build succeeded; current_hit_tmp=0 and the first workload.
StartWorkloads ==
    /\ pc' = "run"
    /\ current_hit_tmp' = Zero
    /\ k' = 1
    /\ UNCHANGED <<raised, ledger, seed_rows, files, top_policies, best_hit,
                   current_hit, prev_name, prev_desc, prev_code, i, prompt,
                   name, desc, code, cc>>

\* A slip that would count the failed attempt as an iteration.
ContinueCounted ==
    /\ pc' = "compose"
    /\ i' = i + 1
    /\ UNCHANGED <<raised, ledger, seed_rows, files, top_policies, best_hit,
                   current_hit, prev_name, prev_desc, prev_code, prompt,
                   name, desc, code, cc, current_hit_tmp, k>>

\* main(): `except subprocess.CalledProcessError: continue`.
Continue ==
    /\ pc' = "compose"
    /\ UNCHANGED <<raised, ledger, seed_rows, files, top_policies, best_hit,
                   current_hit, prev_name, prev_desc, prev_code, i, prompt,
                   name, desc, code, cc, current_hit_tmp, k>>

\* A slip that would let the CalledProcessError of a failed build escape.
CompileUncaught ==
    /\ pc = "compile"
    /\ UNCHANGED <<text, fn_in, fn_out>>
    /\ IF Builds(code)
       THEN StartWorkloads
       ELSE /\ pc' = "fatal"
            /\ raised' = "CalledProcessError"
            /\ UNCHANGED <<ledger, seed_rows, files, top_policies, best_hit,
                           current_hit, prev_name, prev_desc, prev_code, i,
                           prompt, name, desc, code, cc, current_hit_tmp, k>>

\* main(): compile_policy(cc); a CalledProcessError restarts the loop.
Compile ==
    /\ pc = "compile"
    /\ UNCHANGED <<text, fn_in, fn_out>>
    /\ IF Builds(code) THEN StartWorkloads ELSE Continue

\* main(): one pass of `for trace_info in workloads`.
RunWorkload ==
    /\ pc = "run"
    /\ UNCHANGED <<text, fn_in, fn_out>>
    /\ LET WORKLOAD == workloads[k]
           out == Report(code, WORKLOAD)
       IN  IF out.kind = "crash"
           THEN /\ pc' = "fatal"
                /\ raised' = "CalledProcessError"
                /\ UNCHANGED <<ledger, current_hit_tmp, k>>
           ELSE LET parsed == parse_hit_rate(Stdout(out))
                    tmp == parsed.rate
                IN  IF parsed.raised # "none"
                    THEN /\ pc' = "fatal"
                         /\ raised' = parsed.raised
                         /\ UNCHANGED <<ledger, current_hit_tmp, k>>
                    ELSE /\ current_hit_tmp' = RatAdd(current_hit_tmp, tmp)
                         /\ ledger' = record(ledger, WORKLOAD, name, desc, cc, tmp, "")
                         /\ k' = k + 1
                         /\ pc' = IF k = Len(workloads) THEN "aggregate" ELSE "run"
                         /\ raised' = raised
    /\ UNCHANGED <<seed_rows, files, top_policies, best_hit, current_hit,
                   prev_name, prev_desc, prev_code, i, prompt, name, desc,
                   code, cc>>

\* A slip that would divide by one workload too few.
AverageShort(total) == RatDivInt(total, Len(workloads) - 1)

\* current_hit_tmp / len(workloads)
Average(total) == RatDivInt(total, Len(workloads))

\* A slip that would leave out `i+=1`.
RecordAllUncounted ==
    /\ pc = "aggregate"
    /\ UNCHANGED <<text, fn_in, fn_out>>
    /\ current_hit' = Average(current_hit_tmp)
    /\ ledger' = record(ledger, ALL, name, desc, cc, current_hit', "")
    /\ i' = i
    /\ pc' = "decide"
    /\ UNCHANGED <<raised, seed_rows, files, top_policies, best_hit,
                   prev_name, prev_desc, prev_code, prompt, name, desc, code,
                   cc, current_hit_tmp, k>>

\* main(): after the workloads, the average, its "all" row and i += 1.
RecordAll ==
    /\ pc = "aggregate"
    /\ UNCHANGED <<text, fn_in, fn_out>>
    /\ current_hit' = Average(current_hit_tmp)
    /\ ledger' = record(ledger, ALL, name, desc, cc, current_hit', "")
    /\ i' = i + 1
    /\ pc' = "decide"
    /\ UNCHANGED <<raised, seed_rows, files, top_policies, best_hit,
                   prev_name, prev_desc, prev_code, prompt, name, desc, code,
                   cc, current_hit_tmp, k>>

\* A slip that would also stop at a ratio of exactly 1.3.
RatioAtLeast(current, best) ==
    current[1] * best[2] * 10 >= 13 * best[1] * current[2]

\* current_hit / best_hit > 1.3, for best_hit # 0
RatioExceeds(current, best) ==
    IF best[1] > 0
    THEN current[1] * best[2] * 10 > 13 * best[1] * current[2]
    ELSE current[1] * best[2] * 10 < 13 * best[1] * current[2]

\* A slip that would hand over the candidate only when it beat the best.
HandOverIfBetter ==
    /\ IF RatGT(current_hit, best_hit)
       THEN prev_name' = name /\ prev_desc' = desc /\ prev_code' = code
       ELSE UNCHANGED <<prev_name, prev_desc, prev_code>>
    /\ pc' = "compose"
    /\ raised' = raised

\* prev_name, prev_desc, prev_code = name, desc, code
HandOver ==
    /\ prev_name' = name
    /\ prev_desc' = desc
    /\ prev_code' = code
    /\ pc' = "compose"
    /\ raised' = raised

\* A slip that would also end the loop behind ITERATIONS evaluations.
DecideWithCap ==
    /\ pc = "decide"
    /\ UNCHANGED <<text, fn_in, fn_out>>
    /\ IF best_hit = Zero
       THEN /\ pc' = "fatal"
            /\ raised' = "ZeroDivisionError"
            /\ UNCHANGED <<prev_name, prev_desc, prev_code>>
       ELSE IF RatioExceeds(current_hit, best_hit) \/ i >= ITERATIONS
            THEN /\ pc' = "done"
                 /\ UNCHANGED <<raised, prev_name, prev_desc, prev_code>>
            ELSE HandOver
    /\ UNCHANGED <<ledger, seed_rows, files, top_policies, best_hit,
                   current_hit, i, prompt, name, desc, code, cc,
                   current_hit_tmp, k>>

\* main(): the break test and the hand-over to the next pass.
Decide ==
    /\ pc = "decide"
    /\ UNCHANGED <<text, fn_in, fn_out>>
    /\ IF best_hit = Zero
       THEN /\ pc' = "fatal"
            /\ raised' = "ZeroDivisionError"
            /\ UNCHANGED <<prev_name, prev_desc, prev_code>>
       ELSE IF RatioExceeds(current_hit, best_hit)
            THEN /\ pc' = "done"
                 /\ UNCHANGED <<raised, prev_name, prev_desc, prev_code>>
            ELSE HandOver
    /\ UNCHANGED <<ledger, seed_rows, files, top_policies, best_hit,
                   current_hit, i, prompt, name, desc, code, cc,
                   current_hit_tmp, k>>

Next ==
    \/ CheckDocker
    \/ Setup
    \/ Compose
    \/ Generate
    \/ Compile
    \/ RunWorkload
    \/ RecordAll
    \/ Decide

Spec == Init /\ [][Next]_vars

\* main() as a process that keeps running through its request-build cycle:
\* composing a prompt completes, the call to the oracle returns or raises,
\* and so does the build in docker, so each of these steps is taken when it
\* can be.
FairSpec == Spec /\ WF_vars(Compose) /\ WF_vars(Generate) /\ WF_vars(Compile)

\* -------------------------------------------------------------- a long run
\* A run on the seeded table in which the oracle first sends a candidate
\* that measures 0.60 and from then on one that measures 0.66: every build
\* and every evaluation succeeds.
SteadyReplies ==
    IF i = 0
    THEN {FormattedReply(<<"A">>, <<"first">>, <<"src60">>)}
    ELSE {FormattedReply(<<"B">>, <<"second">>, <<"src66">>)}

LongInit == Init /\ ledger = SeedLedger(PerfHalf)

LongCompose == ComposeWithin(LongRunIter)

LongGenerate == GenerateFrom(SteadyReplies)

LongNext ==
    \/ CheckDocker
    \/ Setup
    \/ LongCompose
    \/ LongGenerate
    \/ Compile
    \/ RunWorkload
    \/ RecordAll
    \/ Decide

LongRunSpec == LongInit /\ [][LongNext]_vars

\* ------------------------------------------------ helpers called on their own
\* The state of main() while one of its helpers is exercised by itself.
Idle ==
    /\ raised = "none"
    /\ ledger = <<>>
    /\ seed_rows = 0
    /\ files = <<>>
    /\ top_policies = <<>>
    /\ best_hit = Zero
    /\ current_hit = Zero
    /\ prev_name = NoName
    /\ prev_desc = NoText
    /\ prev_code = NoText
    /\ i = 0
    /\ prompt = NoPrompt
    /\ text = <<>>
    /\ name = NoName
    /\ desc = NoText
    /\ code = NoText
    /\ cc = NoPath
    /\ current_hit_tmp = Zero
    /\ k = 0

StaysIdle ==
    UNCHANGED <<raised, ledger, seed_rows, files, top_policies, best_hit,
                current_hit, prev_name, prev_desc, prev_code, i, prompt, text,
                name, desc, code, cc, current_hit_tmp, k>>

\* Pieces a reply is put together from: the three sections as the prompt
\* asks for them, each of them left blank, a source whose fence never
\* closes, and a line of other text.
ReplyPieces ==
    {<<NameMarker, NL, "x", NL>>,
     <<DescMarker, NL, "y", NL>>,
     <<CodeOpen, NL, "z", NL, Fence, NL>>,
     <<NameMarker, NL, NL>>,
     <<DescMarker, NL, NL>>,
     <<CodeOpen, NL, Fence, NL>>,
     <<CodeOpen, NL, "z", NL>>,
     <<"w", NL>>}

\* Pieces per reply.
MaxPieces == 3

RECURSIVE Concat(_)
Concat(parts) == IF parts = <<>> THEN <<>> ELSE Head(parts) \o Concat(Tail(parts))

ReplyTexts ==
    {Concat(parts) :
        parts \in UNION {[1..n -> ReplyPieces] : n \in 0..MaxPieces}}

ParseInit ==
    /\ Idle
    /\ pc = "call"
    /\ fn_in \in [fn : {"parse_policy_content"}, arg : ReplyTexts]
    /\ fn_out = NoCall

\* name, desc, code = parse_policy_content(text) and the test main() makes.
CallParse ==
    /\ pc = "call"
    /\ fn_in.fn = "parse_policy_content"
    /\ LET reply == parse_policy_content(fn_in.arg)
       IN  fn_out' = [fn |-> fn_in.fn, res |-> reply,
                      accepted |-> ~ParseFailed(reply)]
    /\ pc' = "called"
    /\ fn_in' = fn_in
    /\ StaysIdle

ParseNext == CallParse

ParseSpec == ParseInit /\ [][ParseNext]_vars

\* Characters a candidate name is drawn from, and the longest name.
NameAlphabet == {"A", "b", "7", "_", "-", "U+00C9", "U+0130"}
MaxNameLen == 3

Names == UNION {[1..n -> NameAlphabet] : n \in 0..MaxNameLen}

SanitizeInit ==
    /\ Idle
    /\ pc = "call"
    /\ fn_in \in [fn : {"sanitize"}, arg : Names]
    /\ fn_out = NoCall

\* base = sanitize(name), and sanitize of the result once more.
CallSanitize ==
    /\ pc = "call"
    /\ fn_in.fn = "sanitize"
    /\ fn_out' = [fn |-> fn_in.fn, res |-> sanitize(fn_in.arg),
                  again |-> sanitize(sanitize(fn_in.arg))]
    /\ pc' = "called"
    /\ fn_in' = fn_in
    /\ StaysIdle

SanitizeNext == CallSanitize

SanitizeSpec == SanitizeInit /\ [][SanitizeNext]_vars

\* Lines a report is put together from: the LLC TOTAL line with several
\* counts, the same counts without the prefix, the line of another cache
\* level, the LLC TOTAL line without whitespace behind the colons, a line
\* cut short, whitespace, and other text.
ReportPieces ==
    {<<LLC_TOTAL, WS, ACCESS, WS, Num(100), WS, HIT, WS, Num(40)>>,
     <<LLC_TOTAL, WS, WS, ACCESS, WS, Num(0), WS, HIT, WS, WS, Num(0)>>,
     <<LLC_TOTAL, WS, ACCESS, WS, Num(10), WS, HIT, WS, Num(10)>>,
     <<ACCESS, WS, Num(100), WS, HIT, WS, Num(40)>>,
     <<Lit("L2C TOTAL"), WS, ACCESS, WS, Num(7), WS, HIT, WS, Num(3)>>,
     <<LLC_TOTAL, WS, ACCESS, Num(100), WS, HIT, Num(40)>>,
     <<LLC_TOTAL, WS, ACCESS, WS, Num(100), WS>>,
     <<WS>>,
     <<Lit("MISS:")>>}

\* Pieces per report.
MaxLines == 3

ReportTexts ==
    {Concat(parts) :
        parts \in UNION {[1..n -> ReportPieces] : n \in 0..MaxLines}}

MetricInit ==
    /\ Idle
    /\ pc = "call"
    /\ fn_in \in [fn : {"parse_hit_rate"}, arg : ReportTexts]
    /\ fn_out = NoCall

\* tmp = parse_hit_rate(out), and parse_llc_stats on the same text.
CallMetric ==
    /\ pc = "call"
    /\ fn_in.fn = "parse_hit_rate"
    /\ fn_out' = [fn |-> fn_in.fn, rate |-> parse_hit_rate(fn_in.arg),
                  stats |-> parse_llc_stats(fn_in.arg)]
    /\ pc' = "called"
    /\ fn_in' = fn_in
    /\ StaysIdle

MetricNext == CallMetric

MetricSpec == MetricInit /\ [][MetricNext]_vars

\* Rows a ledger to rank is drawn from, and the longest such ledger.
RankRows ==
    {Row(w, nm, "", "", NoPath, score, score) :
        w \in {ALL, "astar"},
        nm \in {<<"A">>, <<"B">>, <<"C">>},
        score \in {<<1, 2>>, <<3, 10>>}}
MaxRows == 3

RankLedgers == UNION {[1..n -> RankRows] : n \in 0..MaxRows}

\* Sizes asked for: one entry, two, and the five main() asks for.
RankSizes == {1, 2, TopN}

RankInit ==
    /\ Idle
    /\ pc = "call"
    /\ fn_in \in [fn : {"get_top_policies_by_score"}, db : RankLedgers,
                   workload : {ALL}, top_n : RankSizes]
    /\ fn_out = NoCall

\* top_policies = rag.get_top_policies_by_score(WORKLOAD, top_n=...)
CallRank ==
    /\ pc = "call"
    /\ fn_in.fn = "get_top_policies_by_score"
    /\ fn_out' = [fn |-> fn_in.fn,
                  res |-> get_top_policies_by_score(fn_in.db, fn_in.workload,
                                                    fn_in.top_n)]
    /\ pc' = "called"
    /\ fn_in' = fn_in
    /\ StaysIdle

RankNext == CallRank

RankSpec == RankInit /\ [][RankNext]_vars

\* ------------------------------------------------------ the seeding script
\* DB_Connection.py run as a script: pc is "scores", "clear", "workload
\* rows", "aggregate rows" and then "seeded"; fn_in holds perf_data and
\* fn_out the script's policy_scores with the positions of its two loops;
\* seed_rows is the number of rows the table held when the script started.
PerfMixed ==
    [w \in Range(workloads) |->
        CASE w = "astar" -> <<Rat(45, 100), Rat(36, 100)>>
          [] w = "lbm" -> <<Rat(44, 100), Zero>>
          [] w = "mcf" -> <<Rat(41, 100), Rat(1, 3)>>
          [] w = "milc" -> <<Rat(32, 100), Rat(36, 100)>>
          [] OTHER -> <<Rat(46, 100), Rat(1, 1)>>]

PerfTables == {PerfHalf, PerfZero, PerfMixed}

\* Tables the script can find: none yet; one it seeded before; one it seeded
\* before and a search run has appended to; one with other rows of the
\* baselines.
PriorLedgers ==
    {<<>>,
     SeedLedger(PerfMixed),
     SeedLedger(PerfHalf) \o EvaluationRows(0, <<"A">>, "first", "src60"),
     SeedAggregateRows(PerfZero)}

SeedInit ==
    /\ pc = "scores"
    /\ raised = "none"
    /\ ledger \in PriorLedgers
    /\ seed_rows = Len(ledger)
    /\ files = <<>>
    /\ top_policies = <<>>
    /\ best_hit = Zero
    /\ current_hit = Zero
    /\ prev_name = NoName
    /\ prev_desc = NoText
    /\ prev_code = NoText
    /\ i = 0
    /\ prompt = NoPrompt
    /\ text = <<>>
    /\ name = NoName
    /\ desc = NoText
    /\ code = NoText
    /\ cc = NoPath
    /\ current_hit_tmp = Zero
    /\ k = 0
    /\ \E pd \in PerfTables : fn_in = [fn |-> "DB_Connection", perf_data |-> pd]
    /\ fn_out = [fn |-> "DB_Connection", policy_scores |-> <<>>, w |-> 0, p |-> 0]

\* What no step of the script touches.
SeedUnchanged ==
    UNCHANGED <<raised, seed_rows, files, top_policies, best_hit, current_hit,
                prev_name, prev_desc, prev_code, i, prompt, text, name, desc,
                code, cc, current_hit_tmp, k, fn_in>>

\* policy_hit_rates and policy_scores: the average hit rate of every policy.
ComputeScores ==
    /\ pc = "scores"
    /\ fn_out' = [fn_out EXCEPT !.policy_scores =
                    [p \in 1..Len(policies) |-> policy_scores(fn_in.perf_data, p)]]
    /\ pc' = "clear"
    /\ UNCHANGED ledger
    /\ SeedUnchanged

\* A slip that would leave out `DELETE FROM experiments`.
ClearTableKeepRows ==
    /\ pc = "clear"
    /\ UNCHANGED ledger
    /\ fn_out' = [fn_out EXCEPT !.w = 1, !.p = 1]
    /\ pc' = "workload rows"
    /\ SeedUnchanged

\* CREATE TABLE IF NOT EXISTS, DELETE FROM experiments, commit.
ClearTable ==
    /\ pc = "clear"
    /\ ledger' = <<>>
    /\ fn_out' = [fn_out EXCEPT !.w = 1, !.p = 1]
    /\ pc' = "workload rows"
    /\ SeedUnchanged

\* One INSERT of `for workload_name ...: for i, (policy_name, pdata) ...`,
\* the commit behind the last one included.
InsertWorkloadRow ==
    /\ pc = "workload rows"
    /\ LET workload_name == workloads[fn_out.w]
           p == fn_out.p
           hit_rate == fn_in.perf_data[workload_name][p]
           score == fn_out.policy_scores[p]
           last_p == p = Len(policies)
           last_w == fn_out.w = Len(workloads)
       IN  /\ ledger' = Append(ledger,
                               Row(workload_name, policies[p].name,
                                   policies[p].description, "described",
                                   policies[p].file_path, hit_rate, score))
           /\ fn_out' = [fn_out EXCEPT
                           !.p = IF last_p THEN 1 ELSE p + 1,
                           !.w = IF last_p /\ ~last_w THEN @ + 1 ELSE @]
           /\ pc' = IF last_p /\ last_w THEN "aggregate rows" ELSE "workload rows"
    /\ SeedUnchanged

\* One INSERT of the "all" loop, the commit behind the last one included.
InsertAggregateRow ==
    /\ pc = "aggregate rows"
    /\ LET p == fn_out.p
           score == fn_out.policy_scores[p]
       IN  /\ ledger' = Append(ledger,
                               Row(ALL, policies[p].name, policies[p].description,
                                   "", policies[p].file_path, score, score))
           /\ fn_out' = [fn_out EXCEPT !.p = IF p = Len(policies) THEN @ ELSE p + 1]
           /\ pc' = IF p = Len(policies) THEN "seeded" ELSE "aggregate rows"
    /\ SeedUnchanged

SeedNext ==
    \/ ComputeScores
    \/ ClearTable
    \/ InsertWorkloadRow
    \/ InsertAggregateRow

SeedSpec == SeedInit /\ [][SeedNext]_vars

\* ================================================================= claims
\* Rows of the ledger that are aggregate rows / that this run appended.
Aggregates == Scope(ledger, ALL)
RunAggregates == {j \in Aggregates : j > seed_rows}

\* The cache_hit_rate values of the rows at the indices S, in ledger order.
RECURSIVE MetricsOf(_, _)
MetricsOf(db, S) ==
    IF S = {} THEN <<>>
    ELSE LET last == CHOOSE j \in S : \A h \in S : h <= j
         IN  Append(MetricsOf(db, S \ {last}), db[last].cache_hit_rate)

\* Real-workload rows recorded for the candidate name of row j before row j.
EarlierRowsOf(j) ==
    {h \in 1..(j - 1) :
        ledger[h].policy = ledger[j].policy /\ ledger[h].workload # ALL}

\* The rows the evaluation that wrote aggregate row j recorded: for a row of
\* the loop the |W| rows right before it, for a seeded baseline the rows
\* that reference the same baseline source.
LoopRow(j) == ledger[j].cpp_file_path.dir = "ChampSim_CRC2/new_policies"
SameEvaluationRows(j) ==
    IF LoopRow(j)
    THEN {h \in 1..(j - 1) : h >= j - Len(workloads)}
    ELSE {h \in 1..(j - 1) :
            /\ ledger[h].cpp_file_path = ledger[j].cpp_file_path
            /\ ledger[h].workload # ALL}

\* C1 as stated: every aggregate row's score is the mean of the metric of all
\* real-workload rows recorded for its candidate name before it was written.
C1_MeanOfAllRowsOfName ==
    \A j \in Aggregates :
        EarlierRowsOf(j) # {} =>
            ledger[j].score = Mean(MetricsOf(ledger, EarlierRowsOf(j)))

\* C1 amended: every aggregate row's score is the mean of the metric of the
\* real-workload rows that the same evaluation recorded for its candidate
\* (for the loop: the |W| rows written right before the aggregate row).
C1_MeanOfOwnEvaluation ==
    \A j \in Aggregates :
        /\ SameEvaluationRows(j) # {}
        /\ \A h \in SameEvaluationRows(j) :
              ledger[h].policy = ledger[j].policy /\ ledger[h].workload # ALL
        /\ ledger[j].score = Mean(MetricsOf(ledger, SameEvaluationRows(j)))

\* C1 witness: the run has evaluated one candidate name twice, with
\* different aggregate scores.
C1_Witness ==
    \E j \in RunAggregates, h \in RunAggregates :
        h < j /\ ledger[h].policy = ledger[j].policy
              /\ ledger[h].score # ledger[j].score

\* The hit rates the simulator reports for a source, one per configured
\* workload, in the configured order.
MeasuredRates(src) ==
    [j \in 1..Len(workloads) |->
        LET out == Report(src, workloads[j])
        IN  IF out.access > 0 THEN Rat(out.hit, out.access) ELSE Zero]

\* The aggregate row just written holds the mean of the measured hit rates.
C2_StoredMean ==
    pc = "decide" =>
        /\ ledger[Len(ledger)].workload = ALL
        /\ ledger[Len(ledger)].score = current_hit
        /\ current_hit = RatDivInt(RatSum(MeasuredRates(code)), Len(workloads))

\* A step that changes current_hit is start-up or follows the last workload.
C2_AfterLastWorkload ==
    current_hit' # current_hit =>
        \/ pc = "init"
        \/ pc = "aggregate" /\ k = Len(workloads) + 1
                            /\ Len(ledger) >= seed_rows + Len(workloads)

\* C2: right after an iteration has written its aggregate row, that row's
\* score is the sum of the hit rates measured for the iteration's candidate
\* over the configured workloads divided by their number; and current_hit
\* only changes in the step after the last workload's run (or at start-up).
C2_AggregateAfterAllWorkloads == [] C2_StoredMean /\ [][C2_AfterLastWorkload]_vars

\* C2 witness: an aggregate row was just written for a candidate whose
\* workloads measured different hit rates.
C2_Witness ==
    /\ pc = "decide"
    /\ \E j \in 1..Len(workloads) : MeasuredRates(code)[j] # MeasuredRates(code)[1]

\* C3 as stated: the |W|+1 rows an iteration records for its candidate,
\* per-workload rows and aggregate row alike, all carry the aggregate score.
C3_ScoreDenormalized ==
    \A j \in RunAggregates :
        \A h \in SameEvaluationRows(j) : ledger[h].score = ledger[j].score

\* The last build failed and the loop is back at its top with the same i.
BuildJustFailed ==
    pc = "compose" /\ cc = SourcePath(i, sanitize(name)) /\ ~Builds(code)

\* C4: no step changes or removes a row: the ledger before a step is a prefix
\* of the ledger after it.
C4_AppendOnly == [][IsPrefix(ledger, ledger')]_vars

\* C4 witness: after a complete evaluation and a failed build with its retry,
\* a workload run raised and ended the run with part of its rows written.
C4_Witness ==
    /\ Len(ledger) > seed_rows + Len(workloads)
    /\ pc = "fatal"
    /\ raised = "CalledProcessError"
    /\ \E p \in DOMAIN files : ~Builds(files[p])

\* What the step taken on a failed build leaves alone, and where it goes.
C5_FailureStep ==
    (pc = "compile" /\ ~Builds(code)) =>
        /\ ledger' = ledger
        /\ i' = i
        /\ <<prev_name', prev_desc', prev_code'>> = <<prev_name, prev_desc, prev_code>>
        /\ current_hit' = current_hit
        /\ best_hit' = best_hit
        /\ pc' = "compose"
        /\ raised' = "none"

\* Every row of the run references a written source that built.
C5_OnlyBuiltRecorded ==
    \A j \in (seed_rows + 1)..Len(ledger) :
        /\ ledger[j].cpp_file_path \in DOMAIN files
        /\ Builds(files[ledger[j].cpp_file_path])

\* C5: the step that handles a build failure changes neither the ledger, the
\* iteration counter, the previous candidate nor the current score and goes
\* back to COMPOSE without raising; and no row of the run references a
\* source that did not build.
C5_BuildFailureDiscarded == [] C5_OnlyBuiltRecorded /\ [][C5_FailureStep]_vars

\* C5 witness: a build failed after an earlier candidate had been evaluated.
C5_Witness == BuildJustFailed /\ i > 0 /\ Len(ledger) > seed_rows

\* C6 as stated: the request composed after a build failure is the request
\* that produced the candidate whose build failed (same previous candidate,
\* same feedback sentence, same scores).
C6_SameRequestAfterBuildFailure ==
    [][(BuildJustFailed /\ pc' = "generate") => prompt' = prompt]_vars

\* The greatest of a non-empty set of scores.
GreatestOf(S) == CHOOSE x \in S : \A y \in S : ~RatGT(y, x)

\* The score main() was seeded with, and the aggregate scores of the rows at S.
SeedScore == top_policies[1].score
ScoresAt(S) == {ledger[j].score : j \in S}

\* current / best > 1.3 for a positive best, written out on the fractions.
MoreThan130Percent(current, best) ==
    best[1] > 0 /\ 10 * current[1] * best[2] > 13 * best[1] * current[2]

\* The two scores the break test compares.
C7_BestAtDecide ==
    pc = "decide" =>
        /\ current_hit = ledger[Len(ledger)].score
        /\ best_hit = GreatestOf({SeedScore}
                                 \cup ScoresAt(RunAggregates \ {Len(ledger)}))

\* A step ends the run normally iff it is a DECIDE above the threshold.
C7_StopStep ==
    (pc' = "done") <=> (pc = "decide" /\ MoreThan130Percent(current_hit, best_hit))

\* C7: the run ends normally in exactly those DECIDE steps where
\* current_score / best_score > 1.3, strictly; and the best_score of that
\* test is the greatest of the seed score and the aggregate scores of the
\* earlier iterations of the run (this iteration's score is not yet in it).
C7_TerminatesOnlyAboveThreshold == [] C7_BestAtDecide /\ [][C7_StopStep]_vars

\* C7 witness: best 0.50 and current 0.66 (ratio 1.32) ended the run.
C7_Witness == pc = "done" /\ best_hit = Rat(50, 100) /\ current_hit = Rat(66, 100)

\* The run went on after a DECIDE with a ratio of exactly 1.3 (0.65 on 0.50).
C7_BoundaryContinues ==
    pc = "compose" /\ i = 1 /\ best_hit = Rat(50, 100) /\ current_hit = Rat(65, 100)

\* best_hit when the oracle is called.
C8_BestAtRequest ==
    pc = "generate" => best_hit = GreatestOf({SeedScore} \cup ScoresAt(RunAggregates))

\* How one step may change best_hit.
C8_UpdateStep ==
    /\ pc # "init" => ~RatGT(best_hit, best_hit')
    /\ pc \notin {"init", "compose"} => best_hit' = best_hit
    /\ (pc = "compose" /\ i > 0 /\ RatGT(current_hit, best_hit)) =>
            best_hit' = current_hit
    /\ (pc = "compose" /\ ~(i > 0 /\ RatGT(current_hit, best_hit))) =>
            best_hit' = best_hit

\* C8: best_score only changes at start-up and when a request is composed,
\* where it becomes current_score if that is strictly greater and stays
\* otherwise; it never decreases; and at every oracle request it is the
\* greatest of the seed score and the aggregate scores of the run so far.
C8_BestFollowsUpdateRule == [] C8_BestAtRequest /\ [][C8_UpdateStep]_vars

\* C8 witness: a request is issued with a best score that an earlier
\* iteration raised above the seed and that the last iteration did not reach.
C8_Witness ==
    pc = "generate" /\ RatGT(best_hit, SeedScore) /\ RatGT(best_hit, current_hit)

\* The candidate a feedback request names.
C9_FeedbackNamesLast ==
    (pc = "generate" /\ i > 0) =>
        LET last == ledger[Len(ledger)]
        IN  /\ prompt.template = "feedback"
            /\ last.workload = ALL
            /\ Len(ledger) > seed_rows
            /\ prompt.prev_name = last.policy
            /\ prompt.prev_desc = last.policy_description
            /\ prompt.prev_code = files[last.cpp_file_path]

\* A DECIDE step that continues hands the evaluated candidate over.
C9_HandOverStep ==
    (pc = "decide" /\ pc' = "compose") =>
        <<prev_name', prev_desc', prev_code'>> = <<name, desc, code>>

\* C9: a DECIDE step that continues makes the candidate just evaluated the
\* previous candidate, improved or not; and every feedback request names
\* the candidate of the last aggregate row, with its description and source.
C9_PreviousIsLastEvaluated == [] C9_FeedbackNamesLast /\ [][C9_HandOverStep]_vars

\* C9 witness: a feedback request names a candidate that scored below the
\* best, after an earlier candidate of the run had set that best.
C9_Witness ==
    /\ pc = "generate"
    /\ prompt.template = "feedback"
    /\ RatGT(best_hit, current_hit)
    /\ \E j \in RunAggregates :
          ledger[j].score = best_hit /\ ledger[j].policy # prompt.prev_name

\* A run started without aggregate rows does nothing but fail in set-up.
C10_NothingWithoutSeed ==
    (\A j \in 1..seed_rows : ledger[j].workload # ALL) =>
        /\ pc \in {"start", "returned", "init", "fatal"}
        /\ pc = "fatal" => raised = "IndexError"
        /\ prompt = NoPrompt
        /\ files = <<>>
        /\ Len(ledger) = seed_rows

\* The outcome of the set-up step.
C10_SetupStep ==
    pc = "init" =>
        IF Aggregates = {}
        THEN pc' = "fatal" /\ raised' = "IndexError"
        ELSE /\ pc' = "compose"
             /\ best_hit' = GreatestOf(ScoresAt(Aggregates))

Headings == {NameMarker, DescMarker, "## C++ Implementation", CodeOpen}

Blank(toks) == \A j \in 1..Len(toks) : toks[j] \in Whitespace

\* What a reply holds under a heading, up to the next heading.
SectionBody(txt, marker) ==
    LET p == Least({q \in 1..Len(txt) : txt[q] = marker})
        ends == {q \in (p + 1)..Len(txt) : txt[q] \in Headings}
    IN  SubSeq(txt, p + 1, IF ends = {} THEN Len(txt) ELSE Least(ends) - 1)

\* What a reply holds between its first opening fence and the fence after.
FencedBody(txt) ==
    LET p == Least({q \in 1..Len(txt) : txt[q] = CodeOpen})
        ends == {q \in (p + 1)..Len(txt) : txt[q] \in {Fence, CodeOpen}}
    IN  SubSeq(txt, p + 1, Least(ends) - 1)

HasMarker(txt, marker) == \E q \in 1..Len(txt) : txt[q] = marker

HasFencedBlock(txt) ==
    \E p \in 1..Len(txt) :
        /\ txt[p] = CodeOpen
        /\ \E q \in (p + 1)..Len(txt) : txt[q] \in {Fence, CodeOpen}

\* One of the three sections is missing or empty.
Incomplete(txt) ==
    \/ ~HasMarker(txt, NameMarker)
    \/ ~HasMarker(txt, DescMarker)
    \/ ~HasFencedBlock(txt)
    \/ Blank(SectionBody(txt, NameMarker))
    \/ Blank(SectionBody(txt, DescMarker))
    \/ Blank(FencedBody(txt))

ParseFailure == pc = "fatal" /\ raised = "RuntimeError: Parse failed"

\* The rows and files of a run that has finished i evaluations and is not
\* in the middle of one.
BetweenEvaluations ==
    Len(ledger) = seed_rows + i * (Len(workloads) + 1)

\* A parse failure leaves the files and the ledger as they were.
C11_FailureStep ==
    [][(pc = "generate" /\ pc' = "fatal")
        => (files' = files /\ ledger' = ledger /\ cc' = cc)]_vars

\* C11: a reply in which the name, the description or the fenced source is
\* missing or empty halts the run with a parse failure, and the failing
\* pass writes no file and records no row.
C11_IncompleteReplyHalts ==
    /\ [](Incomplete(text) /\ text # <<>>
            => ParseFailure /\ BetweenEvaluations)
    /\ C11_FailureStep

\* The three sections stand in the order name, description, fenced source.
InOrder(txt) ==
    \E p, q, r \in 1..Len(txt) :
        /\ p < q /\ q < r
        /\ txt[p] = NameMarker /\ txt[q] = DescMarker /\ txt[r] = CodeOpen
        /\ \E f \in (r + 1)..Len(txt) : txt[f] \in {Fence, CodeOpen}

\* C12: a reply is taken as a candidate only if it holds the name marker,
\* the description marker and the fenced source in that order.
C12_OnlyInOrder ==
    (pc = "called" /\ fn_out.fn = "parse_policy_content" /\ fn_out.accepted)
        => InOrder(fn_in.arg)

\* The errors a workload's run can end the search with.
WorkloadErrors == {"CalledProcessError", "RuntimeError: LLC TOTAL not found"}

\* The evaluation under way has passed workloads 1 .. k-1: each of their
\* runs ended with the counters of the last-level cache.
C13_PassedWorkloadsReported ==
    pc \in {"run", "aggregate"} =>
        \A j \in 1..(k - 1) : Report(code, workloads[j]).kind = "stats"

\* The search halted at workload k: behind the rows of the i finished
\* evaluations stand the rows of workloads 1 .. k-1, and nothing else.
C13_HaltedAfterPrefix ==
    (pc = "fatal" /\ raised \in WorkloadErrors) =>
        /\ Report(code, workloads[k]).kind # "stats"
        /\ Len(ledger) = seed_rows + i * (Len(workloads) + 1) + (k - 1)
        /\ \A j \in 1..(k - 1) :
              LET row == ledger[Len(ledger) - (k - 1) + j]
              IN  row.workload = workloads[j] /\ row.cpp_file_path = cc

\* An aggregate row of the run follows a row for every configured workload
\* of the same candidate source.
C13_AggregateFollowsAll ==
    \A j \in RunAggregates :
        \A w \in 1..Len(workloads) :
            \E h \in (seed_rows + 1)..(j - 1) :
                /\ ledger[h].workload = workloads[w]
                /\ ledger[h].cpp_file_path = ledger[j].cpp_file_path

\* C13: when the run of workload k fails or its report lacks the metric,
\* the search halts and the ledger has gained the rows of workloads 1 .. k-1
\* of that iteration and no aggregate row; an aggregate row of the loop
\* exists only behind a row for every configured workload of its iteration.
C13_FailureKeepsPrefix ==
    /\ C13_PassedWorkloadsReported
    /\ C13_HaltedAfterPrefix
    /\ C13_AggregateFollowsAll

\* C13 witness: after a finished evaluation, the third workload's report
\* lacked the metric and the search halted behind two rows of that pass.
C13_Witness ==
    /\ pc = "fatal"
    /\ raised = "RuntimeError: LLC TOTAL not found"
    /\ k = 3
    /\ i = 1
    /\ Len(ledger) = seed_rows + Len(workloads) + 1 + 2
    /\ ledger[Len(ledger)].workload = workloads[2]

\* Row j of the ledger belongs to the candidate being evaluated.
OfCandidate(j) == ledger[j].policy = name /\ ledger[j].cpp_file_path = cc

\* An evaluation has just finished: the ledger ends with one row per
\* configured workload, in the configured order, and then the "all" row,
\* all for the candidate's name and source path.
C14_RowsOfEvaluation ==
    pc = "decide" =>
        LET first == Len(ledger) - Len(workloads)
        IN  /\ Len(ledger) = seed_rows + i * (Len(workloads) + 1)
            /\ \A w \in 1..Len(workloads) :
                  ledger[first + w - 1].workload = workloads[w]
                      /\ OfCandidate(first + w - 1)
            /\ ledger[Len(ledger)].workload = ALL
            /\ OfCandidate(Len(ledger))

\* A workload's successful run appends the row of that workload, and the
\* step behind the last workload appends the "all" row.
C14_RowPerStep ==
    /\ (pc = "run" /\ pc' # "fatal") =>
          /\ Len(ledger') = Len(ledger) + 1
          /\ SubSeq(ledger', 1, Len(ledger)) = ledger
          /\ ledger'[Len(ledger')].workload = workloads[k]
    /\ pc = "aggregate" =>
          /\ Len(ledger') = Len(ledger) + 1
          /\ SubSeq(ledger', 1, Len(ledger)) = ledger
          /\ ledger'[Len(ledger')].workload = ALL
    /\ pc \notin {"run", "aggregate"} => ledger' = ledger

\* C14: every successfully evaluated iteration appends |W| + 1 rows: one per
\* configured workload, in order and right after that workload's run, then
\* one "all" row, all with one candidate name and one source reference.
C14_EvaluationAppendsRows == [] C14_RowsOfEvaluation /\ [][C14_RowPerStep]_vars

\* C14 witness: the second evaluation of a run has just finished, for a
\* candidate name the first evaluation had too.
C14_Witness ==
    /\ pc = "decide"
    /\ i = 2
    /\ ledger[Len(ledger) - Len(workloads) - 1].policy = name
    /\ Len(ledger) = seed_rows + 2 * (Len(workloads) + 1)

\* The characters of [a-z0-9_].
SafeChars == Range(LowerCase) \cup Range(Digits) \cup {"_"}

Sanitized == pc = "called" /\ fn_out.fn = "sanitize"

\* C15: sanitize is idempotent, its output holds only characters of
\* [a-z0-9_], and it neither starts nor ends with "_".
C15_SafeAndIdempotent ==
    Sanitized =>
        /\ fn_out.again = fn_out.res
        /\ Range(fn_out.res) \subseteq SafeChars
        /\ fn_out.res # <<>> =>
              fn_out.res[1] # "_" /\ fn_out.res[Len(fn_out.res)] # "_"

\* C16: sanitize of a non-empty name is never the empty string.
C16_NeverEmpty ==
    (Sanitized /\ fn_in.arg # <<>>) => fn_out.res # <<>>

\* Positions p < q of a report with nothing but whitespace between them:
\* any amount of it, or at least some.
Spaced(txt, p, q) == p < q /\ \A r \in (p + 1)..(q - 1) : txt[r] = WS
SpacedApart(txt, p, q) == p + 1 < q /\ Spaced(txt, p, q)

IsNumber(txt, p) == txt[p].t = "digits"

\* "ACCESS:" at p, a number at a, "HIT:" and a number at h, with
\* whitespace before "HIT:" and any whitespace behind the two colons.
CountsAt(txt, p, a, h) ==
    /\ txt[p] = ACCESS
    /\ IsNumber(txt, a) /\ Spaced(txt, p, a)
    /\ IsNumber(txt, h)
    /\ \E q \in (a + 1)..(h - 1) :
          txt[q] = HIT /\ SpacedApart(txt, a, q) /\ Spaced(txt, q, h)

\* "LLC TOTAL" at p, then "ACCESS:", a number at a, "HIT:" and a number at
\* h, each behind at least some whitespace.
LLCCountsAt(txt, p, a, h) ==
    /\ txt[p] = LLC_TOTAL
    /\ IsNumber(txt, a)
    /\ IsNumber(txt, h)
    /\ \E q \in (p + 1)..(a - 1) :
          txt[q] = ACCESS /\ SpacedApart(txt, p, q) /\ SpacedApart(txt, q, a)
    /\ \E q \in (a + 1)..(h - 1) :
          txt[q] = HIT /\ SpacedApart(txt, a, q) /\ SpacedApart(txt, q, h)

\* Where a report holds a given token, and where it holds a number.
Places(txt, tok) == {p \in 1..Len(txt) : txt[p] = tok}
Numbers(txt) == {p \in 1..Len(txt) : IsNumber(txt, p)}

\* The leftmost place where a report holds the counts, as the numbers
\* <<a, h>> in a set; the empty set when it holds them nowhere.
FirstCounts(txt) ==
    LET found == {m \in Places(txt, ACCESS) \X Numbers(txt) \X Numbers(txt) :
                     CountsAt(txt, m[1], m[2], m[3])}
    IN  {<<txt[m[2]].n, txt[m[3]].n>> :
            m \in {m \in found : \A o \in found : m[1] <= o[1]}}

FirstLLCCounts(txt) ==
    LET found == {m \in Places(txt, LLC_TOTAL) \X Numbers(txt) \X Numbers(txt) :
                     LLCCountsAt(txt, m[1], m[2], m[3])}
    IN  {<<txt[m[2]].n, txt[m[3]].n>> :
            m \in {m \in found : \A o \in found : m[1] <= o[1]}}

\* What the two functions return for the counts <<a, h>>, and that they
\* raise when there are none.
ReturnsCounts(counts) ==
    IF counts = {}
    THEN fn_out.rate.raised # "none" /\ fn_out.stats.raised # "none"
    ELSE \A c \in counts :
            /\ fn_out.rate.raised = "none"
            /\ fn_out.stats.raised = "none"
            /\ fn_out.stats.access = c[1]
            /\ fn_out.stats.hits = c[2]
            /\ fn_out.rate.rate = IF c[1] = 0 THEN Zero ELSE Rat(c[2], c[1])

Measured == pc = "called" /\ fn_out.fn = "parse_hit_rate"

\* C17 as stated: a report that holds "ACCESS: <a> HIT: <h>" anywhere yields
\* (a, h) and the rate h / a (0 when a = 0); a report without it raises.
C17_AnyCountsLine == Measured => ReturnsCounts(FirstCounts(fn_in.arg))

\* C17 amended: a report that holds "LLC TOTAL", "ACCESS:", <a>, "HIT:", <h>
\* with at least one whitespace character between each two of them yields
\* (a, h) of the leftmost such place and the rate h / a (0 when a = 0); any
\* other report raises.
C17_LLCTotalLine == Measured => ReturnsCounts(FirstLLCCounts(fn_in.arg))

\* C17 witness: a report whose first line gives the counts 7 and 3 of
\* another cache level and whose LLC TOTAL line gives 100 and 40.
C17_Witness ==
    /\ Measured
    /\ fn_in.arg # <<>>
    /\ Head(fn_in.arg) = Lit("L2C TOTAL")
    /\ FirstCounts(fn_in.arg) = {<<7, 3>>}
    /\ fn_out.stats.access = 100
    /\ fn_out.stats.hits = 40
    /\ fn_out.rate.rate = <<2, 5>>

\* The aggregate row of the run's evaluation number m (counted from 0).
AggregateOf(m) == seed_rows + (m + 1) * (Len(workloads) + 1)

\* Evaluations of the run whose aggregate row stands in the ledger.
Evaluated == {m \in 0..(i - 1) : AggregateOf(m) \in RunAggregates}

\* The file name of evaluation m: three digits or more of m, "_", the
\* sanitized candidate name and ".cc".
NamedByIndex(m) ==
    LET row == ledger[AggregateOf(m)]
    IN  row.cpp_file_path.file =
            Pad3(Decimal(m)) \o <<"_">> \o sanitize(row.policy) \o <<".", "c", "c">>

\* C18: no two evaluated iterations of one run share a source file name:
\* each is named by its own index and the sanitized name, whatever names
\* repeat and whatever build failures came between.
C18_DistinctArtifacts ==
    /\ \A j \in RunAggregates : \E m \in Evaluated : j = AggregateOf(m)
    /\ \A m \in Evaluated : NamedByIndex(m)
    /\ \A j \in RunAggregates, h \in RunAggregates :
          j # h => ledger[j].cpp_file_path # ledger[h].cpp_file_path

\* C18 witness: three evaluations, two of them of one candidate name, and
\* the file of a failed build whose index the third evaluation used again.
C18_Witness ==
    /\ Cardinality(RunAggregates) = 3
    /\ \E j \in RunAggregates, h \in RunAggregates :
          j # h /\ ledger[j].policy = ledger[h].policy
    /\ \E path \in DOMAIN files :
          /\ ~Builds(files[path])
          /\ \E j \in RunAggregates :
                /\ ledger[j].cpp_file_path # path
                /\ SubSeq(ledger[j].cpp_file_path.file, 1, 3) = SubSeq(path.file, 1, 3)

RankingReturned == pc = "called" /\ fn_out.fn = "get_top_policies_by_score"

\* Score x is above score y.
Above(x, y) == x[1] * y[2] > y[1] * x[2]

\* Rows of the ledger ranked that an entry of the result can stand for.
RowsOf(entry) ==
    {j \in 1..Len(fn_in.db) :
        /\ fn_in.db[j].workload = fn_in.workload
        /\ fn_in.db[j].policy = entry.policy
        /\ fn_in.db[j].score = entry.score}

\* C19: the ranking returns at most n entries, each a row of the scope, in
\* descending order of score, and of two entries with equal scores the one
\* recorded earlier comes first.
C19_SortedEarliestFirst ==
    RankingReturned =>
        /\ Len(fn_out.res) <= fn_in.top_n
        /\ \A a \in 1..Len(fn_out.res) : RowsOf(fn_out.res[a]) # {}
        /\ \A a \in 1..Len(fn_out.res), b \in 1..Len(fn_out.res) :
              a < b =>
                /\ ~Above(fn_out.res[b].score, fn_out.res[a].score)
                /\ fn_out.res[a].score = fn_out.res[b].score =>
                      Least(RowsOf(fn_out.res[a])) < Least(RowsOf(fn_out.res[b]))

\* C19 witness: rows with the scores 0.5, 0.5 and 0.3 recorded in that
\* order for three candidates; the first recorded 0.5 ranks first.
C19_Witness ==
    /\ RankingReturned
    /\ fn_in.top_n = 2
    /\ Len(fn_in.db) = 3
    /\ \A j \in 1..3 : fn_in.db[j].workload = ALL
    /\ fn_in.db[1].score = <<1, 2>> /\ fn_in.db[1].policy = <<"B">>
    /\ fn_in.db[2].score = <<1, 2>> /\ fn_in.db[2].policy = <<"A">>
    /\ fn_in.db[3].score = <<3, 10>> /\ fn_in.db[3].policy = <<"C">>
    /\ Len(fn_out.res) = 2
    /\ fn_out.res[1].policy = <<"B">>
    /\ fn_out.res[2].policy = <<"A">>

\* The score of evaluation m, and the greatest of the seed score and the
\* scores of the evaluations before it.
ScoreOf(m) == ledger[AggregateOf(m)].score
BestBefore(m) ==
    GreatestOf({SeedScore} \cup {ScoreOf(n) : n \in {n \in Evaluated : n < m}})

\* Some evaluation of the run scored more than 1.3 times the best before it.
SomeJump ==
    \E m \in Evaluated : MoreThan130Percent(ScoreOf(m), BestBefore(m))

\* A DECIDE step below the threshold hands over to the next pass, whatever
\* the counter is, and no other step touches the counter but the one that
\* counts an evaluation.
C20_GoesOn ==
    /\ (pc = "decide" /\ best_hit # Zero
            /\ ~MoreThan130Percent(current_hit, best_hit)) =>
          (pc' = "compose" /\ i' = i)
    /\ i' # i => (pc = "aggregate" /\ i' = i + 1) \/ pc = "init"

\* C20: nothing but the ratio test stops the loop: a run ends normally only
\* if one of its evaluations scored more than 1.3 times the best before it,
\* however many evaluations it has counted and however far its scores have
\* risen above the seed score in several steps.
C20_OnlyRatioStops == [](pc = "done" => SomeJump) /\ [][C20_GoesOn]_vars

\* C20 witness: the counter has passed ITERATIONS and a further request is
\* out; the scores have risen to more than 1.3 times the seed score, in
\* steps none of which was a jump.
C20_Witness ==
    /\ pc = "generate"
    /\ i > ITERATIONS
    /\ Cardinality(Evaluated) = i
    /\ MoreThan130Percent(current_hit, SeedScore)
    /\ ~SomeJump

\* ------------------------------------------------------------ C21 .. C26
\* The previous-candidate state holds a candidate.
PreviousDefined ==
    prev_name # NoName /\ prev_desc # NoText /\ prev_code # NoText

\* The template of the request that is out, by what the run has evaluated.
C21_TemplateAtRequest ==
    pc = "generate" =>
        /\ RunAggregates = {} => prompt.template = "cold start"
        /\ RunAggregates # {} =>
              /\ prompt.template = "feedback"
              /\ prompt.prev_name # NoName
              /\ prompt.prev_desc # NoText
              /\ prompt.prev_code # NoText

\* The step that composes a request.
C21_ComposeStep ==
    (pc = "compose" /\ pc' = "generate") =>
        /\ prompt'.template \in {"cold start", "feedback"}
        /\ prompt'.template = "feedback" => PreviousDefined

\* C21: every request issued before the run has recorded its first aggregate
\* row uses the cold-start template, retries after a build failure included;
\* every request after that uses the feedback template; and a feedback
\* request is only composed when the previous candidate is defined.
C21_TemplateByEvaluations == [] C21_TemplateAtRequest /\ [][C21_ComposeStep]_vars

\* C21 witness: a cold-start request is out again after a candidate that was
\* written at iteration 0 failed to build.
C21_Witness ==
    /\ pc = "generate"
    /\ prompt.template = "cold start"
    /\ RunAggregates = {}
    /\ cc = SourcePath(0, sanitize(name))
    /\ ~Builds(code)

\* The rows of the table that a baseline has in a scope.
RowsFor(workload, p) ==
    {j \in 1..Len(ledger) :
        ledger[j].workload = workload /\ ledger[j].policy = policies[p].name}

\* The metric values of a baseline over the full workload set, from the
\* rows of the table.
SeededMetrics(p) ==
    [j \in 1..Len(workloads) |->
        ledger[CHOOSE h \in RowsFor(workloads[j], p) : TRUE].cache_hit_rate]

\* C22: when the seeding script has finished, the table holds exactly one
\* row per (workload, baseline) pair and one "all" row per baseline and
\* nothing else, whatever it held before; each per-workload row holds the
\* metric the script was given for the pair; and the score of every row of a
\* baseline, the "all" row included, is the arithmetic mean of the
\* baseline's metric values over all the workloads.
C22_SeedDenormalized ==
    pc = "seeded" =>
        /\ Len(ledger) = (Len(workloads) + 1) * Len(policies)
        /\ \A j \in 1..Len(ledger) :
              /\ ledger[j].workload \in Range(workloads) \cup {ALL}
              /\ \E p \in 1..Len(policies) : ledger[j].policy = policies[p].name
        /\ \A p \in 1..Len(policies) :
              /\ \A w \in Range(workloads) \cup {ALL} :
                    Cardinality(RowsFor(w, p)) = 1
              /\ \A w \in Range(workloads) :
                    \A j \in RowsFor(w, p) :
                        ledger[j].cache_hit_rate = fn_in.perf_data[w][p]
              /\ \A w \in Range(workloads) \cup {ALL} :
                    \A j \in RowsFor(w, p) :
                        ledger[j].score =
                            RatDivInt(RatSum(SeededMetrics(p)), Len(workloads))

\* C22 witness: the script has finished on a table that held rows of an
\* earlier seeding and of a search run, with a baseline whose metric differs
\* from workload to workload.
C22_Witness ==
    /\ pc = "seeded"
    /\ seed_rows > (Len(workloads) + 1) * Len(policies)
    /\ \E p \in 1..Len(policies) :
          \E j \in RowsFor("astar", p) :
              ledger[j].cache_hit_rate # ledger[j].score

\* The counter and the growth of the ledger at the top of the loop.
C23_CounterAtCompose ==
    pc = "compose" =>
        /\ i = Cardinality(RunAggregates)
        /\ Len(ledger) - seed_rows = i * (Len(workloads) + 1)

\* The only step that changes the counter is the one that records the
\* aggregate row behind the last workload; a failed build leaves it alone.
C23_CountStep ==
    /\ i' # i =>
          /\ pc = "aggregate"
          /\ k = Len(workloads) + 1
          /\ i' = i + 1
          /\ Len(ledger') = Len(ledger) + 1
          /\ ledger'[Len(ledger')].workload = ALL
    /\ (pc = "compile" /\ ~Builds(code)) => i' = i

\* C23: whenever a request is about to be composed, the iteration counter is
\* the number of aggregate rows the run has appended and the ledger has
\* grown by counter * (|W| + 1) rows since the run started; the counter
\* only changes, by one, in the step that completes an evaluation.
C23_CounterCountsEvaluations == [] C23_CounterAtCompose /\ [][C23_CountStep]_vars

\* C23 witness: the loop is at its top after two evaluations and a build
\* failure, on a table that held rows before the run.
C23_Witness ==
    /\ pc = "compose"
    /\ i = 2
    /\ seed_rows > 0
    /\ \E p \in DOMAIN files : ~Builds(files[p])

\* The last aggregate row the run has appended.
LastAggregate == ledger[Greatest(RunAggregates)]

\* The current score a feedback sentence prints: "improved from <best> to
\* <current>", or "hit rate was <current>, not better than <best>".
ReportedCurrent(feedback) ==
    IF feedback.kind = "improved" THEN feedback.to ELSE feedback.from

\* The feedback request that is out.
C24_FeedbackAtRequest ==
    (pc = "generate" /\ prompt.template = "feedback") =>
        /\ RunAggregates # {}
        /\ prompt.feedback.kind \in {"improved", "not better"}
        /\ ReportedCurrent(prompt.feedback) = Pct2(LastAggregate.score)
        /\ prompt.prev_name = LastAggregate.policy
        /\ prompt.prev_desc = LastAggregate.policy_description
        /\ LastAggregate.cpp_file_path \in DOMAIN files
        /\ prompt.prev_code = files[LastAggregate.cpp_file_path]

\* Where the loop composes a feedback request, current_hit is the score of
\* the previous candidate's aggregate row.
C24_ComposeStep ==
    (pc = "compose" /\ pc' = "generate" /\ i > 0) =>
        /\ current_hit = LastAggregate.score
        /\ prev_name = LastAggregate.policy
        /\ ReportedCurrent(prompt'.feedback) = Pct2(current_hit)
        /\ prompt'.prev_name = prev_name
        /\ prompt'.prev_code = prev_code

\* C24: the current score that a feedback request reports is the score of
\* the last aggregate row the run has appended (printed as a percentage with
\* two decimals), and the candidate the request names, describes and quotes
\* is the candidate of that row.
C24_FeedbackScoreOfPrevious == [] C24_FeedbackAtRequest /\ [][C24_ComposeStep]_vars

\* C24 witness: a feedback request is out after two evaluations of different
\* candidates with different scores, the later one below the best, and a
\* build failure behind them.
C24_Witness ==
    /\ pc = "generate"
    /\ prompt.template = "feedback"
    /\ prompt.feedback.kind = "not better"
    /\ prompt.feedback.from # prompt.feedback.to
    /\ ~Builds(code)
    /\ \E j \in RunAggregates :
          /\ ledger[j].policy # LastAggregate.policy
          /\ ledger[j].score # LastAggregate.score

\* Every candidate the oracle returns fails to build, and each call to the
\* oracle returns a candidate (a reply with its three sections).
EveryBuildFails == pc = "compile" => ~Builds(code)
OracleAnswers == raised \notin {"APIError", "RuntimeError: Parse failed"}

\* The loop has composed a request.
LoopEntered == prompt # NoPrompt

\* The loop goes round without an evaluation: no end, no error, no row and
\* no count.
Retrying ==
    /\ pc \in {"compose", "generate", "compile"}
    /\ raised = "none"
    /\ i = 0
    /\ Len(ledger) = seed_rows
    /\ prompt.template = "cold start"

\* C25: in a run in which every candidate the oracle returns fails to build,
\* the loop, once entered, stays in its request-build cycle for ever: it
\* never ends, never raises, never appends a row and never counts an
\* iteration; every build failure is followed by a new request, and every
\* request by another build failure.
C25_RetriesForever ==
    ([]EveryBuildFails /\ []OracleAnswers) =>
        /\ [](LoopEntered => Retrying)
        /\ [](BuildJustFailed => <>(pc = "generate"))
        /\ [](pc = "generate" => <>BuildJustFailed)

\* C25 witness: the loop is back at its top after a failed build; no source
\* written so far has built and nothing has been recorded or counted.
C25_Witness ==
    /\ BuildJustFailed
    /\ i = 0
    /\ Len(ledger) = seed_rows
    /\ Cardinality(DOMAIN files) >= 1
    /\ \A p \in DOMAIN files : ~Builds(files[p])
    /\ prompt.template = "cold start"
    /\ raised = "none"

\* The DECIDE step has a divisor, and leads to the end of the run or to the
\* next COMPOSE.
C26_DivisorAtDecide == pc = "decide" => best_hit # Zero
C26_DecideStep == pc = "decide" => (pc' \in {"done", "compose"} /\ raised' = "none")

\* C26 as stated: whatever non-negative aggregate scores the seed ledger
\* holds, a best score of 0 included, the ratio of the DECIDE step is never
\* taken with best_score = 0, and the step behind a recorded iteration ends
\* the run normally or goes on to the next COMPOSE, never raising.
C26_DecideDefined == [] C26_DivisorAtDecide /\ [][C26_DecideStep]_vars

====
